---------------------------- MODULE Spec2Model ----------------------------
(***************************************************************************)
(* Branch-and-Bound study scheduler (src/src/branch_bound_scheduler.py,    *)
(* src/src/study_task.py).                                                 *)
(*                                                                         *)
(* One behaviour is one BranchAndBoundScheduler object: constructed for a  *)
(* problem (Init), then solve() is called (Solve) and its while loop runs  *)
(* one iteration per step (PopPrune, PopComplete, PopExpand) until the     *)
(* frontier is empty (Exhausted) or the time limit has elapsed (TimeOut).  *)
(*                                                                         *)
(* Scores are Python floats in the source.  Here they are exact rationals  *)
(* written as integers in units of 1/Scale; Scale is a common multiple of  *)
(* every denominator the scorer can produce, so every \div below is exact. *)
(* A task's subject_id is its position in problem.tasks (ids 1..n, as in   *)
(* every problem the repository builds).                                   *)
(***************************************************************************)
EXTENDS Integers, Sequences, FiniteSets, TLC

(***************************************************************************)
(* Bounds of the model.                                                    *)
(***************************************************************************)
MaxDays == 3
MaxRequired == 3
MaxMinSession == 2
MaxExplored == 400
MaxCalls == 2

MaxDailyHours == MaxRequired
MaxDeadline == MaxDays + 1

(***************************************************************************)
(* Program constants.                                                      *)
(***************************************************************************)
SmartThreshold == 5
TopExhaustive == 20
TopSmart == 15
QueueCapLarge == 1000
QueueCapSmall == 10000
WPriority == 3
WTimePref == 1
WBalance == 2
WDeadline == 4
TimeBonus == 2
BalanceCeiling == 2
MissedDeadlinePenalty == 10
DifficultyScale == 10

Max(a, b) == IF a >= b THEN a ELSE b
Min(a, b) == IF a <= b THEN a ELSE b

RECURSIVE Gcd(_, _)
Gcd(a, b) == IF b = 0 THEN a ELSE Gcd(b, a % b)

RECURSIVE LcmUpTo(_)
LcmUpTo(n) == IF n <= 1 THEN 1 ELSE LET l == LcmUpTo(n - 1) IN (l * n) \div Gcd(l, n)

\* One score unit is 1/Scale: 20 covers the factors 1.5, 0.7 and difficulty/10.
Scale == 20 * LcmUpTo(MaxDeadline) * LcmUpTo(MaxDailyHours)

\* float('-inf'): below every score the scorer can produce (see ScoresAboveNegInf).
NegInf == -1000000000

RECURSIVE SumSeq(_)
SumSeq(s) == IF s = <<>> THEN 0 ELSE Head(s) + SumSeq(Tail(s))

Range(s) == {s[i] : i \in DOMAIN s}

\* The element of a one-element set.  The({e : x \in {v}}) is e with x standing for the
\* value of v: TLC evaluates a definition or an operator argument again at every use
\* when it computes ENABLED, and a bound variable once.
The(S) == CHOOSE r \in S : TRUE

(***************************************************************************)
(* The problems a scheduler is constructed for.                            *)
(***************************************************************************)
Task(r, dl, p, df, deps) ==
    [required_hours |-> r, deadline |-> dl, priority |-> p, difficulty |-> df,
     dependencies |-> deps]

\* A task of any length, due on any day up to one day past the longest horizon.
FirstTasks == {Task(r, dl, 1, 1, {}) : r \in 1..MaxRequired, dl \in 1..MaxDeadline}

\* The same task already overdue when the schedule starts: its deadline is day 0.
OverdueTasks == {Task(r, 0, 1, 1, {}) : r \in 1..MaxRequired}

\* A follow-up task, with or without the first task as its prerequisite.
SecondTasks == {Task(r, MaxDeadline, 5, 5, deps) : r \in 1..2, deps \in {{}, {1}}}

Filler == Task(1, MaxDeadline, 1, 1, {})

TaskLists ==
    {<<a>> : a \in FirstTasks}
    \cup {<<a, b>> : a \in FirstTasks, b \in SecondTasks}
    \cup {<<a, b, Filler, Filler, Filler, Filler>> :
            a \in {t \in FirstTasks : t.required_hours <= 2 /\ t.deadline >= MaxDays},
            b \in SecondTasks}

OverdueTaskLists ==
    {<<a>> : a \in OverdueTasks} \cup {<<a, b>> : a \in OverdueTasks, b \in SecondTasks}

ProblemsOf(lists) ==
    {[tasks |-> ts, max_days |-> d, max_daily_hours |-> h, min_session_hours |-> m] :
        ts \in lists, d \in 1..MaxDays, h \in 1..MaxDailyHours, m \in 1..MaxMinSession}

\* Two tasks that wait for each other: neither is ever available
BlockedTaskLists ==
    {<<Task(r, dl, 1, 1, {2}), Task(1, MaxDeadline, 5, 5, {1})>> :
        r \in 1..MaxRequired, dl \in 1..MaxDeadline}

Problems == ProblemsOf(TaskLists)
BlockedProblems == ProblemsOf(BlockedTaskLists)
OverdueProblems == ProblemsOf(OverdueTaskLists)
\* The problem of the scorer's worked example, and the one-task problems around it:
\* a task of priority 5 and difficulty 1.
ExampleProblem ==
    [tasks |-> <<Task(2, 2, 5, 1, {})>>, max_days |-> 2, max_daily_hours |-> 2,
     min_session_hours |-> 1]
ScorerProblems ==
    ProblemsOf({<<Task(r, dl, 5, 1, {})>> : r \in 1..MaxRequired, dl \in 1..MaxDeadline})

\* Six equal tasks over a week: the frontier outgrows max_queue_size and is cut.  With
\* difficulty 0, 4 hours a day and deadline - 1 = 8 every score of this problem is a
\* binary fraction, so the floating-point search takes the same steps as the exact one.
TruncationProblem ==
    [tasks |-> [i \in 1..6 |-> Task(4, 9, 1, 0, {})],
     max_days |-> 7, max_daily_hours |-> 4, min_session_hours |-> 1]

\* Problems whose days hold more combinations than a node may branch into: three tasks
\* of three hours with four-hour days (31 combinations), and six tasks of five hours
\* with eight-hour days.  Deadlines lie past the horizon and difficulty is 0, so every
\* score is a binary fraction.
ManyCombinationProblems ==
    {[tasks |-> <<Task(3, 5, p1, 0, {}), Task(3, 9, p2, 0, {}), Task(3, 5, 3, 0, {})>>,
      max_days |-> 3, max_daily_hours |-> 4, min_session_hours |-> 1] :
        p1 \in {1, 5}, p2 \in {1, 5}}
    \cup {[tasks |-> [i \in 1..6 |-> Task(5, IF i % 2 = 1 THEN 5 ELSE 9, i, 0, {})],
           max_days |-> 4, max_daily_hours |-> 8, min_session_hours |-> m] : m \in 1..2}

\* SchedulingProblem.get_total_required_hours
GetTotalRequiredHours(p) == SumSeq([i \in DOMAIN p.tasks |-> p.tasks[i].required_hours])

\* A feasibility test that also asks every task to fit before its own deadline
IsFeasibleByDeadline(p) ==
    /\ GetTotalRequiredHours(p) <= p.max_days * p.max_daily_hours
    /\ \A i \in DOMAIN p.tasks :
        p.tasks[i].required_hours <= p.tasks[i].deadline * p.max_daily_hours

\* SchedulingProblem.is_feasible
IsFeasible(p) == GetTotalRequiredHours(p) <= p.max_days * p.max_daily_hours

BaselineProblems == {p \in Problems : Len(p.tasks) <= 2}

\* The problems of one or two tasks over the longest horizon whose first task is one
\* hour due after the horizon.
LiveProblems ==
    {p \in Problems : /\ Len(p.tasks) <= 2
                      /\ p.max_days = MaxDays
                      /\ p.tasks[1].required_hours = 1
                      /\ p.tasks[1].deadline = MaxDeadline}

\* Problems of one or two tasks over a horizon one day shorter, whose first task is
\* one hour due after the longest horizon, with days of at most two hours and sessions
\* of one hour or more, for runs of several solvers in a row
SolverProblems ==
    {p \in Problems : /\ Len(p.tasks) <= 2
                      /\ p.max_days = MaxDays - 1
                      /\ p.max_daily_hours <= 2
                      /\ p.min_session_hours = 1
                      /\ p.tasks[1].required_hours = 1
                      /\ p.tasks[1].deadline = MaxDeadline}

VARIABLES
    problem,         \* self.problem
    pc,              \* "idle" (constructed), "running" (inside solve's loop), "done"
    time_limit,      \* solve's argument: "none" (None) or "finite" (seconds)
    priority_queue,  \* the heap array of (-upper_bound, counter, node)
    node_counter,    \* insertion sequence number of the next push
    best_solution,   \* self.best_solution: <<>> (None) or <<node>>
    best_score,      \* self.best_score
    nodes_explored,  \* self.nodes_explored
    nodes_pruned,    \* self.nodes_pruned
    current_node,    \* the node popped by the latest iteration: <<>> or <<node>>
    children,        \* the children generated by the latest iteration
    calls,           \* how many times solve has been called on this scheduler
    task_remaining,  \* remaining_hours of the StudyTask objects of problem.tasks
    baseline         \* the run of a baseline scheduler (GreedyScheduler, ...) on the problem

vars == <<problem, pc, time_limit, priority_queue, node_counter, best_solution,
          best_score, nodes_explored, nodes_pruned, current_node, children,
          calls, task_remaining, baseline>>

NumTasks == Len(problem.tasks)
TaskIds == 1..NumTasks


(***************************************************************************)
(* ScheduleNode and the scorer (study_task.py).                            *)
(***************************************************************************)
\* sum(hours for _, hours in day_assignments)
DailyTotal(day_assignments) == SumSeq([i \in DOMAIN day_assignments |-> day_assignments[i][2]])

\* ScheduleNode._calculate_time_bonus: the constant 2.0
CalculateTimeBonus(task, day) == TimeBonus * Scale

\* max(0, 2.0 - daily_total_hours / max_daily_hours)
BalanceBonus(daily_total_hours) ==
    Max(0, BalanceCeiling * Scale - (daily_total_hours * Scale) \div problem.max_daily_hours)

\* The penalty with the deadline day counted in, as calculate_upper_bound counts it
CalculateDeadlinePenaltyInclusive(task, day) ==
    LET days_until_deadline == task.deadline - day + 1 IN
    IF days_until_deadline <= 0
    THEN MissedDeadlinePenalty * Scale
    ELSE Max(0, (task.difficulty * Scale) \div (DifficultyScale * days_until_deadline))

\* ScheduleNode._calculate_deadline_penalty
CalculateDeadlinePenalty(task, day) ==
    LET days_until_deadline == task.deadline - day IN
    IF days_until_deadline <= 0
    THEN MissedDeadlinePenalty * Scale
    ELSE Max(0, (task.difficulty * Scale) \div (DifficultyScale * days_until_deadline))

\* One session's term of calculate_objective_score.
SessionScore(subject_id, hours, day, daily_total_hours) ==
    IF subject_id \notin TaskIds THEN 0
    ELSE LET task == problem.tasks[subject_id] IN
         (WPriority * task.priority * Scale
          + WTimePref * CalculateTimeBonus(task, day)
          + WBalance * BalanceBonus(daily_total_hours)
          - WDeadline * CalculateDeadlinePenalty(task, day)) * hours

\* The inner loop of calculate_objective_score: one day's sessions
DayScore(day, day_assignments) ==
    LET daily_total_hours == DailyTotal(day_assignments) IN
    SumSeq([i \in DOMAIN day_assignments |->
              SessionScore(day_assignments[i][1], day_assignments[i][2],
                           day, daily_total_hours)])

RECURSIVE SumDayScores(_, _)
SumDayScores(assignments, days) ==
    IF days = {} THEN 0
    ELSE The({DayScore(day, assignments[day])
              + The({SumDayScores(assignments, rest) : rest \in {days \ {day}}}) :
              day \in {CHOOSE d \in days : TRUE}})

\* ScheduleNode.calculate_objective_score
CalculateObjectiveScore(assignments) == SumDayScores(assignments, DOMAIN assignments)

\* deadline_factor of calculate_upper_bound, in tenths
DeadlineFactor(task, current_day) ==
    LET remaining_days == problem.max_days - current_day + 1
        days_until_deadline == Max(1, task.deadline - current_day + 1)
    IN IF days_until_deadline < remaining_days THEN 7 ELSE 10

\* max_score_per_hour of calculate_upper_bound, for the optimistic bonus 1.5
MaxScorePerHour(task, current_day) ==
    ((WPriority * task.priority * Scale
      + WTimePref * ((3 * Scale) \div 2)
      + WBalance * ((3 * Scale) \div 2)) * DeadlineFactor(task, current_day)) \div 10

\* ScheduleNode.calculate_upper_bound
CalculateUpperBound(current_day, remaining, objective_score) ==
    objective_score
    + SumSeq([i \in DOMAIN remaining |->
                IF remaining[i] > 0
                THEN MaxScorePerHour(problem.tasks[i], current_day) * remaining[i]
                ELSE 0])

\* A feasibility check made of the per-task deadline tests alone
CheckFeasibilityDeadlinesOnly(current_day, remaining) ==
    \A i \in DOMAIN remaining :
        remaining[i] > 0 =>
            LET days_until_deadline == problem.tasks[i].deadline - current_day + 1 IN
            /\ ~(days_until_deadline <= 0)
            /\ ~(remaining[i] > days_until_deadline * problem.max_daily_hours)

\* BranchAndBoundScheduler._check_feasibility
CheckFeasibility(current_day, remaining) ==
    LET remaining_days == problem.max_days - current_day + 1
        total_remaining_hours == SumSeq(remaining)
    IN /\ ~(total_remaining_hours > remaining_days * problem.max_daily_hours)
       /\ \A i \in DOMAIN remaining :
            remaining[i] > 0 =>
                LET days_until_deadline == problem.tasks[i].deadline - current_day + 1 IN
                /\ ~(days_until_deadline <= 0)
                /\ ~(remaining[i] > days_until_deadline * problem.max_daily_hours)

\* ScheduleNode(current_day, assignments, remaining_tasks) with its defaults
NewNode(current_day, assignments, remaining) ==
    [current_day |-> current_day, assignments |-> assignments, remaining |-> remaining,
     objective_score |-> 0, upper_bound |-> 0, is_feasible |-> TRUE]

\* calculate_objective_score, calculate_upper_bound and _check_feasibility on a new child
Scored(node) ==
    The({[node EXCEPT !.objective_score = score,
                      !.upper_bound = CalculateUpperBound(node.current_day, node.remaining, score),
                      !.is_feasible = CheckFeasibility(node.current_day, node.remaining)] :
         score \in {CalculateObjectiveScore(node.assignments)}})

\* The task list is worked on in place: the scheduler's tasks are problem.tasks themselves
ProblemTasksShared(original, working) == working

\* copy.deepcopy(self.problem.tasks), copy.deepcopy(parent.remaining_tasks): what happens
\* to the working tasks does not happen to the tasks of the problem
ProblemTasksAfter(original, working) == original

\* The root of solve: its bound is computed, its score and feasibility are not.
RootNode ==
    The({[root EXCEPT !.upper_bound =
                        CalculateUpperBound(1, root.remaining, root.objective_score)] :
         root \in {NewNode(1, <<>>, [i \in TaskIds |-> task_remaining[i]])}})

\* The children are built on the parent's own maps: the parent ends with the
\* assignments and the task hours of the last child built
ParentSharedWithChildren(parent, cs) ==
    IF cs = <<>> THEN parent
    ELSE [parent EXCEPT !.assignments = cs[Len(cs)].assignments,
                        !.remaining = cs[Len(cs)].remaining]

\* The parent once its children are built: every child starts from copy.deepcopy of
\* the parent's assignments and remaining_tasks, so the parent is what it was
ParentAfterBranch(parent, cs) == parent

\* The skip child left on its parent's day
CreateSkipDayChildSameDay(parent) ==
    The({Scored(child) :
         child \in {NewNode(parent.current_day, parent.assignments, parent.remaining)}})

\* BranchAndBoundScheduler._create_skip_day_child
CreateSkipDayChild(parent) ==
    The({Scored(child) :
         child \in {NewNode(parent.current_day + 1, parent.assignments, parent.remaining)}})

\* The update of remaining_hours left out
ApplyCombinationForgotten(remaining, combination) == remaining

\* remaining_hours after a combination's sessions: the first task with the id loses the hours
RECURSIVE ApplyCombination(_, _)
ApplyCombination(remaining, combination) ==
    IF combination = <<>> THEN remaining
    ELSE LET subject_id == Head(combination)[1]
             hours == Head(combination)[2]
         IN The({ApplyCombination(updated, Tail(combination)) :
                 updated \in {IF subject_id \in DOMAIN remaining
                              THEN [remaining EXCEPT ![subject_id] = @ - hours]
                              ELSE remaining}})

\* child.assignments[day] = combination, when the combination is not empty
AssignDay(assignments, day, combination) ==
    IF combination # <<>>
    THEN [d \in (DOMAIN assignments) \cup {day} |->
            IF d = day THEN combination ELSE assignments[d]]
    ELSE assignments

\* BranchAndBoundScheduler._create_child_node
CreateChildNode(parent, day, combination) ==
    The({Scored(child) :
         child \in {NewNode(day + 1,
                            AssignDay(parent.assignments, day, combination),
                            ApplyCombination(parent.remaining, combination))}})

(***************************************************************************)
(* The child generator (branch_bound_scheduler.py).                        *)
(***************************************************************************)
RECURSIVE Concat(_)
Concat(ss) == IF ss = <<>> THEN <<>> ELSE Head(ss) \o Concat(Tail(ss))

\* range(lo, hi + 1) as a sequence
RangeSeq(lo, hi) == [k \in 1..Max(0, hi - lo + 1) |-> lo + k - 1]

\* The comparison of two key tuples of the same length
KeyLess(a, b) == \E i \in DOMAIN a : a[i] < b[i] /\ \A j \in 1..(i - 1) : a[j] = b[j]

\* The positions 1..Len(key) in ascending order of their keys, equal keys in position order
SortedIndices(key) ==
    The({LET Insert(t, i) ==
                 The({SubSeq(t, 1, n) \o <<i>> \o SubSeq(t, n + 1, Len(t)) :
                      n \in {Cardinality({j \in DOMAIN t : ~KeyLess(k[i], k[t[j]])})}})
             sorted[i \in 0..Len(k)] ==
                 IF i = 0 THEN <<>> ELSE The({Insert(t, i) : t \in {sorted[i - 1]}})
         IN sorted[Len(k)] :
         k \in {key}})

\* list.sort / sorted: stable, by the key tuple of each element
StableSort(s, key) ==
    The({[k \in DOMAIN order |-> elements[order[k]]] :
         elements \in {s}, order \in {SortedIndices(key)}})

\* A dependency counts as satisfied once it has been started
DependenciesStarted(subject_id, remaining) ==
    \A dep_id \in problem.tasks[subject_id].dependencies :
        ~(dep_id \in DOMAIN remaining
          /\ remaining[dep_id] >= problem.tasks[dep_id].required_hours)

\* BranchAndBoundScheduler._dependencies_satisfied
DependenciesSatisfied(subject_id, remaining) ==
    \A dep_id \in problem.tasks[subject_id].dependencies :
        ~(dep_id \in DOMAIN remaining /\ remaining[dep_id] > 0)

\* available_subjects of _generate_children, as subject ids in task order
AvailableSubjects(node) ==
    SelectSeq([i \in TaskIds |-> i],
              LAMBDA i : node.remaining[i] > 0 /\ DependenciesSatisfied(i, node.remaining))

\* BranchAndBoundScheduler._generate_daily_combinations: backtrack() and its loop over hours
RECURSIVE Backtrack(_, _, _, _, _), BacktrackHours(_, _, _, _, _, _)
Backtrack(subjects, remaining, current_combo, remaining_hours, subject_index) ==
    IF subject_index > Len(subjects)
    THEN IF current_combo # <<>> THEN <<current_combo>> ELSE <<>>
    ELSE Backtrack(subjects, remaining, current_combo, remaining_hours, subject_index + 1)
         \o BacktrackHours(subjects, remaining, current_combo, remaining_hours, subject_index,
                           problem.min_session_hours)

BacktrackHours(subjects, remaining, current_combo, remaining_hours, subject_index, hours) ==
    LET subject == subjects[subject_index]
        max_allocatable == Min(remaining_hours, remaining[subject])
    IN IF hours > max_allocatable THEN <<>>
       ELSE (IF hours <= remaining_hours
             THEN Backtrack(subjects, remaining, Append(current_combo, <<subject, hours>>),
                            remaining_hours - hours, subject_index + 1)
             ELSE <<>>)
            \o BacktrackHours(subjects, remaining, current_combo, remaining_hours,
                              subject_index, hours + 1)

\* An enumeration that never fills the last hour of the day
GenerateDailyCombinationsShort(subjects, remaining, max_hours) ==
    Backtrack(subjects, remaining, <<>>, max_hours - 1, 1)

GenerateDailyCombinations(subjects, remaining, max_hours) ==
    Backtrack(subjects, remaining, <<>>, max_hours, 1)

\* BranchAndBoundScheduler._calculate_combination_priority, in units of 1/Scale
CalculateCombinationPriority(combination) ==
    SumSeq([i \in DOMAIN combination |->
              LET subject_id == combination[i][1]
                  hours == combination[i][2]
              IN IF subject_id \in TaskIds
                 THEN LET task == problem.tasks[subject_id] IN
                      task.priority * (Scale \div Max(1, task.deadline - 1)) * hours
                 ELSE 0])

\* The combinations left in the order they were generated
Unsorted(combinations) == combinations

\* sort(key=_calculate_combination_priority, reverse=True)
SortByPriority(combinations) ==
    The({StableSort(cs, [i \in DOMAIN cs |-> <<-CalculateCombinationPriority(cs[i])>>]) :
         cs \in {combinations}})

FirstN(s, n) == The({SubSeq(first, 1, Min(n, Len(first))) : first \in {s}})

\* tuple(sorted(combo)): the sessions ordered by (subject_id, hours)
SortedCombo(combo) == StableSort(combo, combo)

\* The de-duplication loop of _generate_smart_combinations: the first occurrence stays
UniqueCombinations(combinations) ==
    The({Concat([i \in DOMAIN cs |->
                   IF \A j \in 1..(i - 1) : seen[j] # seen[i] THEN <<cs[i]>> ELSE <<>>]) :
         cs \in {combinations},
         seen \in {[i \in DOMAIN combinations |-> SortedCombo(combinations[i])]}})

\* subjects_by_priority: sorted by (deadline - day, -priority, -difficulty)
SubjectsByPriority(subjects, day) ==
    The({StableSort(subjects, key) :
         key \in {[i \in DOMAIN subjects |->
                     <<problem.tasks[subjects[i]].deadline - day,
                       -problem.tasks[subjects[i]].priority,
                       -problem.tasks[subjects[i]].difficulty>>]}})

\* Strategy 1: the most urgent subject alone, for every length
SmartStrategy1(by_priority, remaining) ==
    IF by_priority = <<>> THEN <<>>
    ELSE LET urgent_subject == by_priority[1]
             max_hours == Min(remaining[urgent_subject], problem.max_daily_hours)
             lengths == RangeSeq(problem.min_session_hours, max_hours)
         IN [k \in DOMAIN lengths |-> << <<urgent_subject, lengths[k]>> >>]

\* Strategy 2 with the second subject's hours limited by the whole day, not by what is left of it
SmartStrategy2WholeDay(by_priority, remaining) ==
    IF Len(by_priority) < 2 THEN <<>>
    ELSE LET s1 == by_priority[1]
             s2 == by_priority[2]
             firsts == RangeSeq(problem.min_session_hours,
                                Min(remaining[s1],
                                    problem.max_daily_hours - problem.min_session_hours))
         IN Concat([a \in DOMAIN firsts |->
                LET max_h2 == Min(remaining[s2], problem.max_daily_hours)
                    seconds == RangeSeq(problem.min_session_hours, max_h2)
                IN [b \in DOMAIN seconds |-> << <<s1, firsts[a]>>, <<s2, seconds[b]>> >>]])

\* Strategy 2: the two most urgent subjects together
SmartStrategy2(by_priority, remaining) ==
    IF Len(by_priority) < 2 THEN <<>>
    ELSE LET s1 == by_priority[1]
             s2 == by_priority[2]
             firsts == RangeSeq(problem.min_session_hours,
                                Min(remaining[s1],
                                    problem.max_daily_hours - problem.min_session_hours))
         IN Concat([a \in DOMAIN firsts |->
                LET h1 == firsts[a]
                    remaining_hours == problem.max_daily_hours - h1
                    max_h2 == Min(remaining[s2], remaining_hours)
                    seconds == IF max_h2 >= problem.min_session_hours
                               THEN RangeSeq(problem.min_session_hours, max_h2)
                               ELSE <<>>
                IN [b \in DOMAIN seconds |-> << <<s1, h1>>, <<s2, seconds[b]>> >>]])

\* Strategy 3: finish a subject today when what is left fits in one day
SmartStrategy3(by_priority, remaining) ==
    Concat([k \in DOMAIN by_priority |->
              LET subject == by_priority[k] IN
              IF remaining[subject] <= problem.max_daily_hours
              THEN << << <<subject, remaining[subject]>> >> >>
              ELSE <<>>])

\* BranchAndBoundScheduler._generate_smart_combinations
GenerateSmartCombinations(subjects, remaining, day) ==
    The({FirstN(SortByPriority(UniqueCombinations(SmartStrategy1(by_priority, remaining)
                                                  \o SmartStrategy2(by_priority, remaining)
                                                  \o SmartStrategy3(by_priority, remaining))),
                TopSmart) :
         by_priority \in {SubjectsByPriority(subjects, day)}})

\* selected_combinations of _generate_children
SelectedCombinations(node, available_subjects) ==
    IF NumTasks > SmartThreshold
    THEN GenerateSmartCombinations(available_subjects, node.remaining, node.current_day)
    ELSE LET combinations == GenerateDailyCombinations(available_subjects, node.remaining,
                                                       problem.max_daily_hours)
             non_empty_combinations == SelectSeq(combinations, LAMBDA c : c # <<>>)
         IN FirstN(SortByPriority(non_empty_combinations), TopExhaustive)

\* The loop of _generate_children over the selected combinations: feasible children only
ChildrenOf(node, selected_combinations) ==
    SelectSeq([k \in DOMAIN selected_combinations |->
                 CreateChildNode(node, node.current_day, selected_combinations[k])],
              LAMBDA child : child.is_feasible)

\* A generator that emits allocation children only
GenerateChildrenNoSkip(node) ==
    IF node.current_day > problem.max_days THEN <<>>
    ELSE ChildrenOf(node, SelectedCombinations(node, AvailableSubjects(node)))

\* BranchAndBoundScheduler._generate_children
GenerateChildren(node) ==
    IF node.current_day > problem.max_days THEN <<>>
    ELSE The({IF available_subjects = <<>> THEN <<skip_child>>
              ELSE <<skip_child>>
                   \o The({ChildrenOf(node, selected_combinations) :
                           selected_combinations \in
                               {SelectedCombinations(node, available_subjects)}}) :
              available_subjects \in {AvailableSubjects(node)},
              skip_child \in {CreateSkipDayChild(node)}})

(***************************************************************************)
(* The frontier: a heapq array of (-upper_bound, counter, node), kept here *)
(* with positions 1..n (parent of k is k \div 2, children 2k and 2k+1).    *)
(***************************************************************************)
Entry(node, counter) == [neg_bound |-> -node.upper_bound, seq |-> counter, node |-> node]

\* Tuple comparison; two entries never tie on the counter, so nodes are not compared.
EntryLess(a, b) == a.neg_bound < b.neg_bound \/ (a.neg_bound = b.neg_bound /\ a.seq < b.seq)

\* heapq._siftdown
RECURSIVE SiftDownLoop(_, _, _, _)
SiftDownLoop(heap, newitem, startpos, pos) ==
    IF pos > startpos /\ EntryLess(newitem, heap[pos \div 2])
    THEN The({SiftDownLoop(moved, newitem, startpos, parentpos) :
              moved \in {[heap EXCEPT ![pos] = heap[pos \div 2]]},
              parentpos \in {pos \div 2}})
    ELSE [heap EXCEPT ![pos] = newitem]

SiftDown(heap, startpos, pos) == SiftDownLoop(heap, heap[pos], startpos, pos)

\* heapq._siftup
RECURSIVE SiftUpLoop(_, _, _, _)
SiftUpLoop(heap, newitem, startpos, pos) ==
    LET childpos == 2 * pos
        rightpos == childpos + 1
    IN IF childpos <= Len(heap)
       THEN The({The({SiftUpLoop(moved, newitem, startpos, smaller) :
                      moved \in {[heap EXCEPT ![pos] = heap[smaller]]}}) :
                 smaller \in {IF rightpos <= Len(heap)
                                 /\ ~EntryLess(heap[childpos], heap[rightpos])
                              THEN rightpos ELSE childpos}})
       ELSE The({SiftDown(placed, startpos, pos) : placed \in {[heap EXCEPT ![pos] = newitem]}})

SiftUp(heap, pos) == SiftUpLoop(heap, heap[pos], pos, pos)

\* heapq.heappush
HeapPush(heap, item) ==
    The({SiftDown(appended, 1, Len(appended)) : appended \in {Append(heap, item)}})

\* heapq.heappop: the entry returned and the heap left
HeapPop(heap) ==
    The({IF rest # <<>>
         THEN The({[item |-> rest[1], heap |-> SiftUp(moved, 1)] :
                   moved \in {[rest EXCEPT ![1] = heap[Len(heap)]]}})
         ELSE [item |-> heap[Len(heap)], heap |-> rest] :
         rest \in {SubSeq(heap, 1, Len(heap) - 1)}})

\* heapq.heapify: _siftup at the positions last, last - 1, ..., first in that order
\* (the range is halved so that the evaluation stays shallow on a long array)
RECURSIVE HeapifyFrom(_, _, _)
HeapifyFrom(heap, first, last) ==
    IF first > last THEN heap
    ELSE IF first = last THEN SiftUp(heap, first)
    ELSE The({The({HeapifyFrom(upper, first, middle) :
                   upper \in {HeapifyFrom(heap, middle + 1, last)}}) :
              middle \in {(first + last) \div 2}})

Heapify(heap) == HeapifyFrom(heap, 1, Len(heap) \div 2)

\* max_queue_size
MaxQueueSize == IF NumTasks > SmartThreshold THEN QueueCapLarge ELSE QueueCapSmall

\* A cut that keeps the last half of the heap array as it lies
LimitQueueTail(heap) ==
    IF Len(heap) > MaxQueueSize
    THEN SubSeq(heap, Len(heap) - MaxQueueSize \div 2 + 1, Len(heap))
    ELSE heap

\* A frontier that is never cut
LimitQueueNever(heap) == heap

\* "Limit queue size": the first half of the heap array, heapified again
LimitQueue(heap) ==
    IF Len(heap) > MaxQueueSize
    THEN The({Heapify(kept) : kept \in {SubSeq(heap, 1, MaxQueueSize \div 2)}})
    ELSE heap

\* A push test that looks at the bound only
PushTestBoundOnly(child, score) == child.upper_bound > score

\* The test that decides whether a child is pushed
PushTest(child, score) == child.is_feasible /\ child.upper_bound > score

\* The for loop over children: push, or count as pruned
RECURSIVE PushChildren(_, _, _, _)
PushChildren(heap, counter, pruned, cs) ==
    IF cs = <<>> THEN [heap |-> heap, counter |-> counter, pruned |-> pruned]
    ELSE IF PushTest(Head(cs), best_score)
         THEN The({PushChildren(pushed, counter + 1, pruned, rest) :
                   pushed \in {HeapPush(heap, Entry(Head(cs), counter))}, rest \in {Tail(cs)}})
         ELSE The({PushChildren(heap, counter, pruned + 1, rest) : rest \in {Tail(cs)}})

\* The test that takes the last day itself for the end of the horizon
IsCompleteSolutionOnLastDay(node) ==
    LET all_tasks_done == \A i \in DOMAIN node.remaining : node.remaining[i] <= 0
        past_last_day == node.current_day >= problem.max_days
    IN all_tasks_done \/ past_last_day

\* A test satisfied as soon as one task is done
IsCompleteSolutionAnyTask(node) ==
    LET some_task_done == \E i \in DOMAIN node.remaining : node.remaining[i] <= 0
        past_last_day == node.current_day > problem.max_days
    IN some_task_done \/ past_last_day

\* BranchAndBoundScheduler._is_complete_solution
IsCompleteSolution(node) ==
    LET all_tasks_done == \A i \in DOMAIN node.remaining : node.remaining[i] <= 0
        past_last_day == node.current_day > problem.max_days
    IN all_tasks_done \/ past_last_day

\* A pruning check that lets a bound equal to the best score through
PruneTestStrict(neg_bound, score) == -neg_bound < score

\* The pruning check on the popped entry
PruneTest(neg_bound, score) == -neg_bound <= score

(***************************************************************************)
(* The scheduler.                                                          *)
(***************************************************************************)
\* No baseline scheduler has been run
BaselineIdle == [pc |-> "idle"]

\* BranchAndBoundScheduler.__init__
Constructed ==
    /\ pc = "idle"
    /\ time_limit = "none"
    /\ priority_queue = <<>>
    /\ node_counter = 0
    /\ best_solution = <<>>
    /\ best_score = NegInf
    /\ nodes_explored = 0
    /\ nodes_pruned = 0
    /\ current_node = <<>>
    /\ children = <<>>
    /\ calls = 0
    /\ task_remaining = [i \in TaskIds |-> problem.tasks[i].required_hours]
    /\ baseline = BaselineIdle

Init == problem \in Problems /\ Constructed

\* A scheduler constructed for a problem with an overdue task
InitOverdue == problem \in OverdueProblems /\ Constructed

\* A scheduler constructed for a problem of one or two tasks
InitLive == problem \in LiveProblems /\ Constructed

\* A problem handed to the branch-and-bound scheduler and to the baseline schedulers
InitSolvers == problem \in SolverProblems /\ Constructed

\* A scheduler constructed for a problem of one task of priority 5
InitScorer == problem \in ScorerProblems /\ Constructed

\* A problem whose two tasks block each other, or a problem of one or two tasks
InitBlocked == problem \in BlockedProblems \cup LiveProblems /\ Constructed

\* A problem with more combinations a day than a node keeps, or one of one or two tasks
InitManyCombinations == problem \in ManyCombinationProblems \cup LiveProblems /\ Constructed

\* A problem whose frontier is cut, or a problem of one or two tasks
InitFrontier == problem \in LiveProblems \cup {TruncationProblem} /\ Constructed

\* A problem of one or two tasks handed to the baseline schedulers
InitBaseline == problem \in BaselineProblems /\ Constructed

\* solve(time_limit) up to the while loop; a call starts when no other solver runs
EnterLoop ==
    /\ baseline.pc \in {"idle", "done"}
    /\ \E tl \in {"none", "finite"} : time_limit' = tl
    /\ \E root \in {RootNode} : priority_queue' = <<Entry(root, 0)>>
    /\ node_counter' = 1
    /\ pc' = "running"
    /\ calls' = calls + 1
    /\ UNCHANGED <<problem, task_remaining, baseline, best_solution, best_score,
                   nodes_explored, nodes_pruned, current_node, children>>

\* The first call of solve on the scheduler
Solve == pc = "idle" /\ EnterLoop

\* A later call of solve on the same scheduler, after the call before has returned
SolveAgain == pc = "done" /\ calls < MaxCalls /\ EnterLoop

\* The loop condition holds: the frontier is not empty and the clock is within the limit
LoopRuns == pc = "running" /\ priority_queue # <<>> /\ nodes_explored < MaxExplored

\* An iteration that ends at the pruning check
PopPrune ==
    /\ LoopRuns
    /\ \E popped \in {HeapPop(priority_queue)} :
        /\ PruneTest(popped.item.neg_bound, best_score)
        /\ priority_queue' = popped.heap
        /\ current_node' = <<popped.item.node>>
        /\ nodes_explored' = nodes_explored + 1
        /\ nodes_pruned' = nodes_pruned + 1
        /\ children' = <<>>
    /\ UNCHANGED <<problem, calls, task_remaining, baseline>>
    /\ UNCHANGED <<pc, time_limit, node_counter, best_solution, best_score>>

\* The iteration of a complete solution that records the new best score and not the node
PopCompleteScoreOnly ==
    /\ LoopRuns
    /\ \E popped \in {HeapPop(priority_queue)} :
        /\ ~PruneTest(popped.item.neg_bound, best_score)
        /\ IsCompleteSolution(popped.item.node)
        /\ \E rescored \in {[popped.item.node EXCEPT !.objective_score =
                                CalculateObjectiveScore(popped.item.node.assignments)]} :
            /\ priority_queue' = popped.heap
            /\ current_node' = <<rescored>>
            /\ nodes_explored' = nodes_explored + 1
            /\ IF rescored.objective_score > best_score
               THEN best_score' = rescored.objective_score
               ELSE UNCHANGED best_score
            /\ children' = <<>>
    /\ UNCHANGED <<problem, calls, task_remaining, baseline>>
    /\ UNCHANGED <<pc, time_limit, node_counter, nodes_pruned, best_solution>>

\* An iteration that pops a complete solution
PopComplete ==
    /\ LoopRuns
    /\ \E popped \in {HeapPop(priority_queue)} :
        /\ ~PruneTest(popped.item.neg_bound, best_score)
        /\ IsCompleteSolution(popped.item.node)
        /\ \E rescored \in {[popped.item.node EXCEPT !.objective_score =
                                CalculateObjectiveScore(popped.item.node.assignments)]} :
            /\ priority_queue' = popped.heap
            /\ current_node' = <<rescored>>
            /\ nodes_explored' = nodes_explored + 1
            /\ IF rescored.objective_score > best_score
               THEN best_score' = rescored.objective_score /\ best_solution' = <<rescored>>
               ELSE UNCHANGED <<best_score, best_solution>>
            /\ children' = <<>>
    /\ UNCHANGED <<problem, calls, task_remaining, baseline>>
    /\ UNCHANGED <<pc, time_limit, node_counter, nodes_pruned>>

\* An iteration that expands the popped node
PopExpand ==
    /\ LoopRuns
    /\ \E popped \in {HeapPop(priority_queue)} :
        /\ ~PruneTest(popped.item.neg_bound, best_score)
        /\ ~IsCompleteSolution(popped.item.node)
        /\ \E cs \in {GenerateChildren(popped.item.node)} :
           \E limited \in {LimitQueue(popped.heap)} :
           \E pushed \in {PushChildren(limited, node_counter, nodes_pruned, cs)} :
            /\ current_node' = <<ParentAfterBranch(popped.item.node, cs)>>
            /\ nodes_explored' = nodes_explored + 1
            /\ children' = cs
            /\ priority_queue' = pushed.heap
            /\ node_counter' = pushed.counter
            /\ nodes_pruned' = pushed.pruned
            /\ task_remaining' =
                 ProblemTasksAfter(task_remaining,
                                   IF cs = <<>> THEN task_remaining ELSE cs[Len(cs)].remaining)
    /\ UNCHANGED <<problem, calls, baseline, pc, time_limit, best_solution, best_score>>

\* The loop test without the "time_limit is None" case of _within_time_limit
TimeOutAnyLimit ==
    /\ pc = "running"
    /\ priority_queue # <<>>
    /\ pc' = "done"
    /\ UNCHANGED <<problem, calls, task_remaining, baseline>>
    /\ UNCHANGED <<time_limit, priority_queue, node_counter, best_solution,
                   best_score, nodes_explored, nodes_pruned, current_node, children>>

\* _within_time_limit is false at the loop test: the loop ends with nodes left
TimeOut ==
    /\ pc = "running"
    /\ priority_queue # <<>>
    /\ time_limit = "finite"
    /\ pc' = "done"
    /\ UNCHANGED <<problem, calls, task_remaining, baseline>>
    /\ UNCHANGED <<time_limit, priority_queue, node_counter, best_solution,
                   best_score, nodes_explored, nodes_pruned, current_node, children>>

\* The frontier is empty at the loop test: the loop ends
Exhausted ==
    /\ pc = "running"
    /\ priority_queue = <<>>
    /\ pc' = "done"
    /\ UNCHANGED <<problem, calls, task_remaining, baseline>>
    /\ UNCHANGED <<time_limit, priority_queue, node_counter, best_solution,
                   best_score, nodes_explored, nodes_pruned, current_node, children>>

(***************************************************************************)
(* The baseline schedulers (baseline_algorithms.py).  baseline.pc is       *)
(* "idle", "day" (at the head of the loop over days), "loop" (inside the   *)
(* while loop of one day) or "done" (solve has returned baseline.result).  *)
(***************************************************************************)
Algorithms == {"greedy", "random", "round_robin"}

SearchVars ==
    <<pc, time_limit, priority_queue, node_counter, best_solution, best_score,
      nodes_explored, nodes_pruned, current_node, children, calls>>

\* The unfinished tasks whatever their deadline
BaselineAvailableLate(tasks, day) == SelectSeq([i \in TaskIds |-> i], LAMBDA i : tasks[i] > 0)

\* available_tasks at the head of a day, as subject ids in task order
BaselineAvailable(tasks, day) ==
    SelectSeq([i \in TaskIds |-> i],
              LAMBDA i : tasks[i] > 0 /\ problem.tasks[i].deadline >= day)

\* [t for t in available_tasks if t.remaining_hours > 0]
StillAvailable(available, tasks) == SelectSeq(available, LAMBDA i : tasks[i] > 0)

\* daily_assignments.append, task.remaining_hours -=, daily_hours +=
Allocated(run, task, hours) ==
    [run EXCEPT !.daily_assignments = Append(@, <<task, hours>>),
                !.tasks[task] = @ - hours,
                !.daily_hours = @ + hours]

\* GreedyScheduler: available_tasks.sort(key=lambda t: (t.deadline - day, -t.priority))
GreedyOrder(available, day) ==
    StableSort(available,
               [k \in DOMAIN available |->
                  <<problem.tasks[available[k]].deadline - day,
                    -problem.tasks[available[k]].priority>>])

\* GreedyScheduler: the loop over the sorted tasks of one day
RECURSIVE GreedyAllocate(_, _)
GreedyAllocate(run, order) ==
    IF order = <<>> \/ run.daily_hours >= problem.max_daily_hours THEN run
    ELSE LET task == Head(order)
             hours_to_allocate ==
                 Min(Min(run.tasks[task], problem.max_daily_hours - run.daily_hours),
                     problem.max_daily_hours)
         IN The({GreedyAllocate(next, Tail(order)) :
                 next \in {IF hours_to_allocate >= problem.min_session_hours
                           THEN Allocated(run, task, hours_to_allocate)
                           ELSE run}})

\* if daily_assignments: schedule[day] = daily_assignments; then the next day
EndOfDay(run) ==
    [run EXCEPT !.schedule = AssignDay(run.schedule, run.day, run.daily_assignments),
                !.day = @ + 1,
                !.pc = "day"]

\* solve() of a baseline scheduler up to the loop over days, on a deep copy of the tasks
BaselineCall ==
    /\ pc # "running"
    /\ baseline.pc \in {"idle", "done"}
    /\ \E alg \in Algorithms :
        baseline' = [pc |-> "day", alg |-> alg, day |-> 1, tasks |-> task_remaining,
                     schedule |-> <<>>, daily_hours |-> 0, daily_assignments |-> <<>>,
                     available |-> <<>>, task_index |-> 0]
    /\ UNCHANGED <<problem, task_remaining, SearchVars>>

\* One day of GreedyScheduler.solve
GreedyDay ==
    /\ baseline.pc = "day"
    /\ baseline.alg = "greedy"
    /\ baseline.day <= problem.max_days
    /\ \E start \in {[baseline EXCEPT !.daily_hours = 0, !.daily_assignments = <<>>]} :
       \E after \in {GreedyAllocate(start,
                                    GreedyOrder(BaselineAvailable(start.tasks, start.day),
                                                start.day))} :
        /\ baseline' = EndOfDay(after)
        /\ task_remaining' = ProblemTasksAfter(task_remaining, after.tasks)
    /\ UNCHANGED <<problem, SearchVars>>

\* RandomScheduler and RoundRobinScheduler: the head of a day, up to the while loop
BaselineDayStart ==
    /\ baseline.pc = "day"
    /\ baseline.alg \in {"random", "round_robin"}
    /\ baseline.day <= problem.max_days
    /\ baseline' = [baseline EXCEPT !.daily_hours = 0,
                                    !.daily_assignments = <<>>,
                                    !.available = BaselineAvailable(baseline.tasks, baseline.day),
                                    !.task_index = 0,
                                    !.pc = "loop"]
    /\ UNCHANGED <<problem, task_remaining, SearchVars>>

\* while available_tasks and daily_hours < self.problem.max_daily_hours
DayLoopRuns ==
    /\ baseline.pc = "loop"
    /\ baseline.available # <<>>
    /\ baseline.daily_hours < problem.max_daily_hours

\* One iteration of RandomScheduler's while loop: random.choice, random.randint
RandomIteration ==
    /\ DayLoopRuns
    /\ baseline.alg = "random"
    /\ \E k \in DOMAIN baseline.available :
        LET task == baseline.available[k]
            max_allocatable == Min(baseline.tasks[task],
                                   problem.max_daily_hours - baseline.daily_hours)
        IN \E after \in IF max_allocatable >= problem.min_session_hours
                        THEN {Allocated(baseline, task, hours_to_allocate) :
                                hours_to_allocate \in
                                    problem.min_session_hours..max_allocatable}
                        ELSE {baseline} :
            /\ baseline' = [after EXCEPT !.available = StillAvailable(@, after.tasks)]
            /\ task_remaining' = ProblemTasksAfter(task_remaining, after.tasks)
    /\ UNCHANGED <<problem, SearchVars>>

\* One iteration of RoundRobinScheduler's while loop
RoundRobinIteration ==
    /\ DayLoopRuns
    /\ baseline.alg = "round_robin"
    /\ LET index == IF baseline.task_index >= Len(baseline.available)
                    THEN 0 ELSE baseline.task_index
           task == baseline.available[index + 1]
           hours_to_allocate ==
               Min(Min(Max(problem.min_session_hours, 1), baseline.tasks[task]),
                   problem.max_daily_hours - baseline.daily_hours)
       IN \E after \in {IF hours_to_allocate >= problem.min_session_hours
                        THEN Allocated(baseline, task, hours_to_allocate)
                        ELSE baseline} :
          \E available \in {StillAvailable(baseline.available, after.tasks)} :
            /\ baseline' = [after EXCEPT !.available = available,
                                         !.task_index = IF index + 1 >= Len(available)
                                                        THEN 0 ELSE index + 1]
            /\ task_remaining' = ProblemTasksAfter(task_remaining, after.tasks)
    /\ UNCHANGED <<problem, SearchVars>>

\* The while condition fails: the day's sessions go in the schedule
BaselineDayEnd ==
    /\ baseline.pc = "loop"
    /\ ~DayLoopRuns
    /\ baseline' = EndOfDay(baseline)
    /\ UNCHANGED <<problem, task_remaining, SearchVars>>

\* After the last day: the ScheduleNode built from the schedule, scored, is returned
BaselineReturn ==
    /\ baseline.pc = "day"
    /\ baseline.day > problem.max_days
    /\ \E solution \in {NewNode(problem.max_days + 1, baseline.schedule, baseline.tasks)} :
        baseline' = [pc |-> "done", alg |-> baseline.alg,
                     result |-> [solution EXCEPT !.objective_score =
                                    CalculateObjectiveScore(solution.assignments)]]
    /\ UNCHANGED <<problem, task_remaining, SearchVars>>

NextBaseline ==
    \/ BaselineCall \/ GreedyDay \/ BaselineDayStart \/ RandomIteration
    \/ RoundRobinIteration \/ BaselineDayEnd \/ BaselineReturn

Next == Solve \/ PopPrune \/ PopComplete \/ PopExpand \/ TimeOut \/ Exhausted

Spec == Init /\ [][Next]_vars

SpecOverdue == InitOverdue /\ [][Next]_vars

SpecScorer == InitScorer /\ [][Next]_vars

\* Searches in which no task may ever be available
SpecBlocked == InitBlocked /\ [][Next]_vars

\* Searches whose nodes have more combinations than they may branch into
SpecManyCombinations == InitManyCombinations /\ [][Next]_vars

\* Searches that go on until the frontier has been cut
SpecFrontier == InitFrontier /\ [][Next]_vars

\* The baseline schedulers, called any number of times on a problem
SpecBaseline == InitBaseline /\ [][NextBaseline]_vars

\* Calls of the four solvers on one problem, one after the other in any order
NextSolvers == Next \/ SolveAgain \/ NextBaseline

SpecSolvers == InitSolvers /\ [][NextSolvers]_vars

\* solve is one sequential loop: a step that can be taken is taken.
FairSpec == InitLive /\ [][Next]_vars /\ WF_vars(Next)

(***************************************************************************)
(* What the properties below talk about.                                   *)
(***************************************************************************)
\* Every node the search holds: the frontier, the popped node, its children, the incumbent.
FrontierNodes == {priority_queue[k].node : k \in DOMAIN priority_queue}
KnownNodes == FrontierNodes \cup Range(current_node) \cup Range(children) \cup Range(best_solution)

\* The schedule solve returns, once it has returned: <<>> (None) or <<node>>.
Returned == IF pc = "done" THEN best_solution ELSE <<>>

\* The sessions of a node as (day, position) pairs.
Sessions(node) ==
    UNION {{<<d, k>> : k \in DOMAIN node.assignments[d]} : d \in DOMAIN node.assignments}

SessionTask(node, s) == node.assignments[s[1]][s[2]][1]
SessionHours(node, s) == node.assignments[s[1]][s[2]][2]

\* Hours committed to a task on the days before `day`.
RECURSIVE SumHours(_, _, _)
SumHours(node, subject_id, sessions) ==
    IF sessions = {} THEN 0
    ELSE LET s == CHOOSE x \in sessions : TRUE IN
         (IF SessionTask(node, s) = subject_id THEN SessionHours(node, s) ELSE 0)
         + SumHours(node, subject_id, sessions \ {s})

CommittedBefore(node, subject_id, day) ==
    SumHours(node, subject_id, {s \in Sessions(node) : s[1] < day})

Committed(node, subject_id) == SumHours(node, subject_id, Sessions(node))

TotalRequired == SumSeq([i \in TaskIds |-> problem.tasks[i].required_hours])

\* The model's stand-in for -infinity is below every score, and the cap on the
\* number of iterations is never what stops a search.
ScoresAboveNegInf ==
    \A node \in KnownNodes : node.objective_score > NegInf /\ node.upper_bound > NegInf
CapNotReached == pc = "running" /\ priority_queue # <<>> => nodes_explored < MaxExplored

(***************************************************************************)
(* C1. Capacity: in every node pushed on the frontier, and so in every     *)
(* schedule solve returns, the hours of each day's sessions add up to at   *)
(* most max_daily_hours, for the exhaustive and for the smart generator.   *)
(***************************************************************************)
CapacityInvariant ==
    \A node \in KnownNodes : \A d \in DOMAIN node.assignments :
        DailyTotal(node.assignments[d]) <= problem.max_daily_hours

\* A schedule returned for a problem of more than 5 tasks with a day of two sessions
\* that fill the day exactly.
CapacityWitness ==
    /\ Returned # <<>>
    /\ NumTasks > SmartThreshold
    /\ \E d \in DOMAIN Returned[1].assignments :
         /\ Len(Returned[1].assignments[d]) = 2
         /\ DailyTotal(Returned[1].assignments[d]) = problem.max_daily_hours

(***************************************************************************)
(* C2. Session floor: every session of every child node the generator      *)
(* produces, and so of every returned schedule, has hours >=               *)
(* min_session_hours, for every min_session_hours >= 1 and both generators.*)
(***************************************************************************)
SessionFloorInvariant ==
    \A node \in KnownNodes : \A s \in Sessions(node) :
        SessionHours(node, s) >= problem.min_session_hours

(***************************************************************************)
(* C3. Conservation: in every node of the search each task has             *)
(* 0 <= remaining_hours <= required_hours and remaining_hours =            *)
(* required_hours minus the hours committed to it over all days; no        *)
(* session is committed to a task that had nothing left at the start of    *)
(* that day, and no task appears twice in one day's combination.           *)
(***************************************************************************)
ConservationInvariant ==
    \A node \in KnownNodes :
        /\ \A i \in TaskIds :
            /\ 0 <= node.remaining[i]
            /\ node.remaining[i] <= problem.tasks[i].required_hours
            /\ node.remaining[i] = problem.tasks[i].required_hours - Committed(node, i)
        /\ \A s \in Sessions(node) :
            /\ SessionTask(node, s) \in TaskIds
            /\ CommittedBefore(node, SessionTask(node, s), s[1])
                 < problem.tasks[SessionTask(node, s)].required_hours
            /\ \A t \in Sessions(node) :
                 (t[1] = s[1] /\ SessionTask(node, t) = SessionTask(node, s)) => t = s

\* A frontier node in which a task was studied on two days and has nothing left.
ConservationWitness ==
    \E node \in FrontierNodes : \E s, t \in Sessions(node) :
        /\ s[1] < t[1]
        /\ SessionTask(node, s) = SessionTask(node, t)
        /\ node.remaining[SessionTask(node, s)] = 0

(***************************************************************************)
(* C4. Deadline: in every schedule solve returns, no session of a task is  *)
(* on a day after the task's deadline.                                     *)
(***************************************************************************)
DeadlineInvariant ==
    Returned # <<>> =>
        \A s \in Sessions(Returned[1]) :
            s[1] <= problem.tasks[SessionTask(Returned[1], s)].deadline

(***************************************************************************)
(* C5. Dependencies: in every node of the search, a session of task T on   *)
(* day d means every task T depends on had no hours left at the start of   *)
(* day d: it was finished on earlier days.                                 *)
(***************************************************************************)
DependencyInvariant ==
    \A node \in KnownNodes : \A s \in Sessions(node) :
        \A dep_id \in problem.tasks[SessionTask(node, s)].dependencies :
            dep_id \in TaskIds =>
                CommittedBefore(node, dep_id, s[1]) >= problem.tasks[dep_id].required_hours

\* A frontier node where a task with a prerequisite is studied, the prerequisite having
\* taken two earlier days.
DependencyWitness ==
    \E node \in FrontierNodes : \E s, t, u \in Sessions(node) :
        /\ problem.tasks[SessionTask(node, u)].dependencies = {SessionTask(node, s)}
        /\ SessionTask(node, t) = SessionTask(node, s)
        /\ s[1] < t[1]
        /\ t[1] < u[1]

(***************************************************************************)
(* C6. Admissible bound: for every node n of the search and every complete *)
(* schedule c that child generation reaches from n, upper_bound(n) >=      *)
(* objective_score(c).                                                     *)
(***************************************************************************)
\* The scores of the complete solutions below a node, through the children solve can push.
RECURSIVE CompletionScores(_)
CompletionScores(node) ==
    IF IsCompleteSolution(node) THEN {CalculateObjectiveScore(node.assignments)}
    ELSE LET cs == GenerateChildren(node) IN
         UNION {CompletionScores(cs[k]) : k \in {j \in DOMAIN cs : cs[j].is_feasible}}

BoundAdmissible ==
    \A node \in FrontierNodes : \A score \in CompletionScores(node) : node.upper_bound >= score

(***************************************************************************)
(* C7. Optimal on small instances: for a problem of at most 3 tasks and 5  *)
(* days, solve run until the frontier is empty returns a schedule whose    *)
(* score is the greatest score of any schedule that finishes every task    *)
(* within capacity, session floor, conservation, deadlines and             *)
(* dependencies (and returns None when there is no such schedule).         *)
(***************************************************************************)
\* One day's allocations: hours per task, 0 for a task not studied that day.
DayAllocations(remaining, day) ==
    {alloc \in [TaskIds -> 0..problem.max_daily_hours] :
        /\ SumSeq(alloc) <= problem.max_daily_hours
        /\ \A i \in TaskIds :
            alloc[i] > 0 =>
                /\ alloc[i] >= problem.min_session_hours
                /\ alloc[i] <= remaining[i]
                /\ day <= problem.tasks[i].deadline
                /\ \A dep_id \in problem.tasks[i].dependencies \cap TaskIds :
                     remaining[dep_id] <= 0}

AllocationSessions(alloc) ==
    LET studied == SelectSeq([i \in TaskIds |-> i], LAMBDA i : alloc[i] > 0)
    IN [k \in DOMAIN studied |-> <<studied[k], alloc[studied[k]]>>]

SetMax(S) == CHOOSE x \in S : \A y \in S : x >= y

RECURSIVE BestCompletion(_, _, _)
BestCompletion(day, remaining, assignments) ==
    IF \A i \in TaskIds : remaining[i] <= 0 THEN CalculateObjectiveScore(assignments)
    ELSE IF day > problem.max_days THEN NegInf
    ELSE SetMax({BestCompletion(day + 1,
                                [i \in TaskIds |-> remaining[i] - alloc[i]],
                                IF AllocationSessions(alloc) = <<>> THEN assignments
                                ELSE [d \in (DOMAIN assignments) \cup {day} |->
                                        IF d = day THEN AllocationSessions(alloc)
                                        ELSE assignments[d]]) :
                 alloc \in DayAllocations(remaining, day)})

BruteForceOptimum ==
    BestCompletion(1, [i \in TaskIds |-> problem.tasks[i].required_hours], <<>>)

OptimalOnSmallInstances ==
    (pc = "done" /\ priority_queue = <<>> /\ NumTasks <= 3 /\ problem.max_days <= 5)
        => best_score = BruteForceOptimum

(***************************************************************************)
(* C8. Over-subscribed problem: when the required hours exceed             *)
(* max_days * max_daily_hours, solve (run until the frontier is empty)     *)
(* returns a schedule, possibly an incomplete one, and not None.           *)
(***************************************************************************)
OverSubscribedReturnsSchedule ==
    (pc = "done" /\ priority_queue = <<>>
     /\ TotalRequired > problem.max_days * problem.max_daily_hours)
        => best_solution # <<>>

(***************************************************************************)
(* C9. Termination: every call of solve returns; with time_limit = None it *)
(* returns with the frontier empty.                                        *)
(***************************************************************************)
Termination == <>(pc = "done" /\ (time_limit = "none" => priority_queue = <<>>))

\* A search without time limit that ended with the frontier empty after expanding
\* nodes on every day of a three-day horizon.
TerminationWitness ==
    /\ pc = "done"
    /\ time_limit = "none"
    /\ priority_queue = <<>>
    /\ problem.max_days >= 3
    /\ best_solution # <<>>
    /\ nodes_explored >= 10

(***************************************************************************)
(* C10. Monotonic incumbent: within one call of solve best_score never     *)
(* decreases, best_solution changes only in a step where best_score grows, *)
(* and best_solution is None with best_score = -infinity or a node whose   *)
(* objective_score is best_score.                                          *)
(***************************************************************************)
IncumbentConsistent ==
    \/ best_solution = <<>> /\ best_score = NegInf
    \/ best_solution # <<>> /\ best_solution[1].objective_score = best_score

IncumbentStep ==
    /\ best_score' >= best_score
    /\ best_solution' # best_solution => best_score' > best_score

MonotonicIncumbent == [](IncumbentConsistent) /\ [][IncumbentStep]_vars

\* The search goes on after an incumbent was recorded: a later node has been popped
\* and nodes are still waiting.
MonotonicIncumbentWitness ==
    /\ pc = "running"
    /\ best_solution # <<>>
    /\ current_node # best_solution
    /\ priority_queue # <<>>

(***************************************************************************)
(* C11. The scorer's worked example: for one task (required 2, deadline 2, *)
(* priority 5, difficulty 1), horizon 2, daily capacity 2, min session 1,  *)
(* the node with assignments {day 1: [(task 1, 2 hours)]} scores exactly   *)
(* 37.2: balance bonus 1, deadline penalty 0.1, 18.6 per hour.             *)
(***************************************************************************)
ExampleAssignments == << << <<1, 2>> >> >>

ScorerExample ==
    problem = ExampleProblem =>
        /\ BalanceBonus(DailyTotal(ExampleAssignments[1])) = Scale
        /\ 10 * CalculateDeadlinePenalty(problem.tasks[1], 1) = Scale
        /\ 10 * SessionScore(1, 1, 1, DailyTotal(ExampleAssignments[1])) = 186 * Scale
        /\ 10 * CalculateObjectiveScore(ExampleAssignments) = 372 * Scale
        /\ \A node \in KnownNodes :
             node.assignments = ExampleAssignments => 10 * node.objective_score = 372 * Scale

\* solve has returned the example's schedule for the example's problem.
ScorerExampleWitness ==
    /\ problem = ExampleProblem
    /\ Returned # <<>>
    /\ Returned[1].assignments = ExampleAssignments
    /\ 10 * best_score = 372 * Scale

(***************************************************************************)
(* C12. No solution: solve starts without a result, and its result changes *)
(* only in an iteration that pops a complete solution and accepts it, to   *)
(* that node; so a search that accepted none returns None, and solve never *)
(* returns a node it did not accept as a complete solution.                *)
(***************************************************************************)
\* Every task is finished, or the node is past the last day.
FinishedOrPastHorizon(node) ==
    \/ \A i \in TaskIds : node.remaining[i] <= 0
    \/ node.current_day > problem.max_days

AcceptanceStep ==
    best_solution' # best_solution =>
        /\ pc = "running" /\ pc' = "running"
        /\ priority_queue # <<>>
        /\ best_solution' = current_node'
        /\ best_solution' # <<>>
        /\ best_solution'[1].assignments = HeapPop(priority_queue).item.node.assignments
        /\ FinishedOrPastHorizon(best_solution'[1])

NoSolutionOutcome ==
    /\ best_solution = <<>>
    /\ [][AcceptanceStep]_vars
    /\ [](best_solution # <<>> => FinishedOrPastHorizon(best_solution[1]))

\* A search that expanded nodes and emptied the frontier without accepting a solution.
NoSolutionWitness ==
    /\ pc = "done"
    /\ priority_queue = <<>>
    /\ best_solution = <<>>
    /\ nodes_explored >= 3

(***************************************************************************)
(* C13. Time-out: the limit is tested at the loop test, before the next    *)
(* pop.  A loop that ends with nodes still waiting ends because a finite   *)
(* limit has elapsed, and ends without popping, expanding or pushing       *)
(* anything; from then on nothing changes, so solve returns the incumbent  *)
(* as it stood at that test (None if there was none).                      *)
(***************************************************************************)
SearchState ==
    <<priority_queue, node_counter, best_solution, best_score, nodes_explored, nodes_pruned,
      current_node, children>>

TimeOutStep ==
    /\ (pc = "running" /\ pc' = "done") => UNCHANGED SearchState
    /\ (pc = "running" /\ pc' = "done" /\ priority_queue # <<>>) => time_limit = "finite"
    /\ pc = "done" => UNCHANGED <<pc, SearchState>>
    /\ (pc = "running" /\ pc' = "running") => nodes_explored' = nodes_explored + 1

TimeOutBehaviour == [][TimeOutStep]_vars

\* solve has timed out with nodes still waiting and returns the incumbent it had.
TimeOutWitness ==
    /\ pc = "done"
    /\ time_limit = "finite"
    /\ priority_queue # <<>>
    /\ best_solution # <<>>
    /\ nodes_explored >= 3

SecondCallStartsFresh ==
    [][SolveAgain => /\ best_score' = NegInf
                     /\ best_solution' = <<>>
                     /\ nodes_explored' = 0
                     /\ nodes_pruned' = 0]_vars

(***************************************************************************)
(* C16  is_feasible is true exactly when the sum of required_hours over    *)
(* all tasks is <= max_days * max_daily_hours; deadlines and dependencies  *)
(* have no part in it, so a problem it accepts may have no solution: solve *)
(* run to frontier exhaustion then returns None.                           *)
(***************************************************************************)
\* The problem with the deadline and the dependencies of one task replaced
DeadlineVariants(p) ==
    UNION {{[p EXCEPT !.tasks[i].deadline = dl, !.tasks[i].dependencies = deps] :
                dl \in 0..MaxDeadline, deps \in {{}, DOMAIN p.tasks \ {i}}} :
           i \in DOMAIN p.tasks}

IsFeasibleOptimistic ==
    /\ IsFeasible(problem) <=> TotalRequired <= problem.max_days * problem.max_daily_hours
    /\ \A q \in DeadlineVariants(problem) : IsFeasible(q) <=> IsFeasible(problem)

\* A problem is_feasible accepts, with a task too long for its deadline, searched to
\* exhaustion without a solution
IsFeasibleOptimisticWitness ==
    /\ IsFeasible(problem)
    /\ problem.min_session_hours = 1
    /\ \E i \in TaskIds :
        problem.tasks[i].required_hours > problem.tasks[i].deadline * problem.max_daily_hours
    /\ pc = "done"
    /\ priority_queue = <<>>
    /\ nodes_explored > 0
    /\ best_solution = <<>>

(***************************************************************************)
(* C17  Baseline capacity: in every schedule returned by the greedy, the   *)
(* random and the round-robin solver, the hours committed on a day sum to  *)
(* at most max_daily_hours, every session is at least min_session_hours    *)
(* long, and no session is on a day after its task's deadline.             *)
(***************************************************************************)
BaselineScheduleValid ==
    baseline.pc = "done" =>
        /\ \A d \in DOMAIN baseline.result.assignments :
            DailyTotal(baseline.result.assignments[d]) <= problem.max_daily_hours
        /\ \A s \in Sessions(baseline.result) :
            /\ SessionHours(baseline.result, s) >= problem.min_session_hours
            /\ s[1] <= problem.tasks[SessionTask(baseline.result, s)].deadline

\* A returned random schedule with a day of two sessions that fill it, and a task left
\* unfinished after its deadline passed before the last day
BaselineScheduleWitness ==
    /\ baseline.pc = "done"
    /\ baseline.alg = "random"
    /\ \E d \in DOMAIN baseline.result.assignments :
         /\ Len(baseline.result.assignments[d]) = 2
         /\ DailyTotal(baseline.result.assignments[d]) = problem.max_daily_hours
    /\ \E i \in TaskIds :
         /\ baseline.result.remaining[i] > 0
         /\ problem.tasks[i].deadline < problem.max_days

(***************************************************************************)
(* C18  Frontier order: every pop removes an entry whose upper bound is    *)
(* the greatest in the frontier and, among entries of that bound, the one  *)
(* with the smallest insertion sequence number.  Sequence numbers grow     *)
(* with every push (the root has 0), so no two entries share one and the   *)
(* order never has to compare two nodes.  The same holds for the pops that *)
(* follow a truncation of the frontier.                                    *)
(***************************************************************************)
FrontierSeqs(queue) == {queue[k].seq : k \in DOMAIN queue}

\* Entries lost to truncation: pushes minus pops minus what is in the frontier
Dropped == node_counter - nodes_explored - Len(priority_queue)

SeqsDistinct ==
    /\ Cardinality(FrontierSeqs(priority_queue)) = Len(priority_queue)
    /\ \A seq \in FrontierSeqs(priority_queue) : 0 <= seq /\ seq < node_counter
    /\ \A k \in DOMAIN priority_queue :
        priority_queue[k].neg_bound = -priority_queue[k].node.upper_bound

PopsGreatest ==
    nodes_explored' = nodes_explored + 1 =>
        \E k \in DOMAIN priority_queue :
            /\ [priority_queue[k].node EXCEPT !.objective_score = 0]
                 = [current_node'[1] EXCEPT !.objective_score = 0]
            /\ \A j \in DOMAIN priority_queue :
                /\ priority_queue[k].node.upper_bound >= priority_queue[j].node.upper_bound
                /\ priority_queue[k].node.upper_bound = priority_queue[j].node.upper_bound
                     => priority_queue[k].seq <= priority_queue[j].seq
            /\ priority_queue[k].seq \notin FrontierSeqs(priority_queue')

PushesNumbered ==
    /\ node_counter' >= node_counter
    /\ FrontierSeqs(priority_queue') \ FrontierSeqs(priority_queue)
         = node_counter..(node_counter' - 1)
    /\ pc = "idle" /\ pc' = "running" => FrontierSeqs(priority_queue') = {0}

FrontierOrder == [](SeqsDistinct) /\ [][PopsGreatest /\ PushesNumbered]_vars

\* A frontier that was cut and has since been popped from and grown past the size a
\* cut leaves
FrontierOrderWitness ==
    /\ pc = "running"
    /\ Dropped > 0
    /\ Len(priority_queue) > MaxQueueSize \div 2 + TopSmart + 1
    /\ \E j, k \in DOMAIN priority_queue :
        j # k /\ priority_queue[j].neg_bound = priority_queue[k].neg_bound

(***************************************************************************)
(* C19  Prune on pop: a popped node whose bound is <= best_score is        *)
(* discarded, neither expanded nor considered as incumbent.  At that       *)
(* moment no entry left in the frontier has a bound above best_score, so   *)
(* from then on every pop is a discard and the incumbent stays what it is  *)
(* until the search ends.                                                  *)
(***************************************************************************)
\* No entry of the frontier has a bound above the best score
FrontierBeaten ==
    \A k \in DOMAIN priority_queue : priority_queue[k].node.upper_bound <= best_score

\* The step is an iteration of the loop that discards the node it pops
Discards ==
    /\ nodes_explored' = nodes_explored + 1
    /\ nodes_pruned' = nodes_pruned + 1
    /\ children' = <<>>
    /\ Len(priority_queue') = Len(priority_queue) - 1
    /\ UNCHANGED <<best_solution, best_score, node_counter>>

PruneStep ==
    /\ (nodes_explored' = nodes_explored + 1 /\ current_node'[1].upper_bound <= best_score)
         => Discards /\ FrontierBeaten'
    /\ (pc = "running" /\ FrontierBeaten)
         => /\ nodes_explored' = nodes_explored + 1 => Discards
            /\ FrontierBeaten'
            /\ UNCHANGED <<best_solution, best_score>>

PruneOnPop == [][PruneStep]_vars

\* A node that is no complete solution was discarded under an incumbent, and entries
\* are still waiting
PruneOnPopWitness ==
    /\ pc = "running"
    /\ best_solution # <<>>
    /\ current_node # <<>>
    /\ ~IsCompleteSolution(current_node[1])
    /\ current_node[1].upper_bound <= best_score
    /\ children = <<>>
    /\ Len(priority_queue) >= 2
    /\ FrontierBeaten

(***************************************************************************)
(* C20  Push filter: a child returned by the child generator is pushed on  *)
(* the frontier if and only if its is_feasible flag is true and its upper  *)
(* bound is above best_score when it is pushed; every returned child that  *)
(* is not pushed adds exactly one to nodes_pruned.  So no infeasible node, *)
(* an infeasible skip-day child included, is ever in the frontier, except  *)
(* the root, which is never checked.                                       *)
(***************************************************************************)
\* The positions in children' of the children that pass the filter
Passing == {k \in DOMAIN children' : children'[k].is_feasible
                                      /\ children'[k].upper_bound > best_score}

\* The entries of the frontier pushed by the step
PushedEntries == {k \in DOMAIN priority_queue' : priority_queue'[k].seq >= node_counter}

PushFilterStep ==
    (nodes_explored' = nodes_explored + 1 /\ children' # <<>>) =>
        /\ best_score' = best_score
        /\ node_counter' - node_counter = Cardinality(Passing)
        /\ nodes_pruned' - nodes_pruned = Len(children') - Cardinality(Passing)
        /\ Cardinality(PushedEntries) = Cardinality(Passing)
        /\ \A k \in PushedEntries :
            \E j \in Passing :
                /\ priority_queue'[k].node = children'[j]
                /\ priority_queue'[k].seq
                     = node_counter + Cardinality({i \in Passing : i < j})

FrontierFeasible ==
    \A k \in DOMAIN priority_queue :
        priority_queue[k].seq # 0 =>
            /\ priority_queue[k].node.is_feasible
            /\ CheckFeasibility(priority_queue[k].node.current_day,
                                priority_queue[k].node.remaining)

PushFilter == [](FrontierFeasible) /\ [][PushFilterStep]_vars

\* An expansion under an incumbent whose skip-day child is infeasible and counted as
\* pruned, with one feasible child stopped by its bound and another one pushed
PushFilterWitness ==
    /\ pc = "running"
    /\ best_solution # <<>>
    /\ children # <<>>
    /\ ~children[1].is_feasible
    /\ \E j \in DOMAIN children :
        children[j].is_feasible /\ children[j].upper_bound <= best_score
    /\ \E j \in DOMAIN children : \E k \in DOMAIN priority_queue :
        priority_queue[k].node = children[j] /\ priority_queue[k].seq = node_counter - 1
    /\ nodes_pruned >= 2

(***************************************************************************)
(* C21  Frontier truncation keeps the best half: when the frontier has     *)
(* more than max_queue_size entries and is cut, the max_queue_size // 2    *)
(* entries kept are those of greatest upper bound: no entry thrown away    *)
(* has an upper bound strictly above that of an entry kept.                *)
(***************************************************************************)
\* The step is an expansion that cuts the frontier left by its pop
CutsFrontier ==
    /\ nodes_explored' = nodes_explored + 1
    /\ children' # <<>>
    /\ Len(priority_queue) - 1 > MaxQueueSize

\* Positions of the entries the step throws away: neither popped (the heap's first
\* position) nor in the frontier afterwards
ThrownAway ==
    {k \in DOMAIN priority_queue :
        k # 1 /\ priority_queue[k].seq \notin FrontierSeqs(priority_queue')}

\* Positions, after the step, of the entries that were kept through the cut
KeptThrough == {k \in DOMAIN priority_queue' : priority_queue'[k].seq < node_counter}

TruncationKeepsBest ==
    [][CutsFrontier =>
         /\ Cardinality(KeptThrough) = MaxQueueSize \div 2
         /\ \A d \in ThrownAway : \A r \in KeptThrough :
              priority_queue[d].node.upper_bound <= priority_queue'[r].node.upper_bound]_vars

(***************************************************************************)
(* C22  Complete-solution step: a popped node that is not pruned is taken  *)
(* for a complete solution exactly when all its tasks have remaining_hours *)
(* <= 0 or its current_day is past max_days.  Such a node is not expanded  *)
(* (no child generated or pushed), its score is computed again from its    *)
(* assignments, and it replaces the incumbent if and only if that score is *)
(* strictly above best_score.  Any other unpruned node is expanded.        *)
(***************************************************************************)
\* The step pops a node whose bound is above the best score
PopsUnpruned ==
    /\ nodes_explored' = nodes_explored + 1
    /\ current_node'[1].upper_bound > best_score

TasksDoneOrPastHorizon(node) ==
    \/ \A i \in DOMAIN node.remaining : node.remaining[i] <= 0
    \/ node.current_day > problem.max_days

CompleteSolutionStep ==
    PopsUnpruned =>
        IF TasksDoneOrPastHorizon(current_node'[1])
        THEN /\ children' = <<>>
             /\ Len(priority_queue') = Len(priority_queue) - 1
             /\ UNCHANGED <<node_counter, nodes_pruned>>
             /\ current_node'[1].objective_score
                  = CalculateObjectiveScore(current_node'[1].assignments)
             /\ IF current_node'[1].objective_score > best_score
                THEN /\ best_score' = current_node'[1].objective_score
                     /\ best_solution' = current_node'
                ELSE UNCHANGED <<best_score, best_solution>>
        ELSE /\ children' # <<>>
             /\ UNCHANGED <<best_score, best_solution>>

CompleteSolution == [][CompleteSolutionStep]_vars

\* A finished schedule has just been popped and made the incumbent, several
\* iterations into the search, while other nodes wait in the frontier
CompleteSolutionWitness ==
    /\ pc = "running"
    /\ current_node # <<>>
    /\ TasksDoneOrPastHorizon(current_node[1])
    /\ best_solution = current_node
    /\ children = <<>>
    /\ priority_queue # <<>>
    /\ nodes_explored > Len(problem.tasks) + 2

(***************************************************************************)
(* C23  Skip-day child: for every node with current_day <= max_days the    *)
(* child generator returns a sequence whose first element is the skip-day  *)
(* child: current_day one more than the parent's, the parent's assignments *)
(* and the parent's remaining_hours for every task.  It is emitted whether *)
(* or not it is feasible, and it is the only child when no task is         *)
(* available (remaining_hours > 0 with every dependency completed).        *)
(***************************************************************************)
SomeTaskAvailable(node) ==
    \E i \in TaskIds :
        /\ node.remaining[i] > 0
        /\ \A dep_id \in problem.tasks[i].dependencies \cap TaskIds : node.remaining[dep_id] <= 0

StartsWithSkip(parent, cs) ==
    /\ cs # <<>>
    /\ cs[1].current_day = parent.current_day + 1
    /\ cs[1].assignments = parent.assignments
    /\ cs[1].remaining = parent.remaining
    /\ ~SomeTaskAvailable(parent) => Len(cs) = 1

SkipDayChild ==
    /\ \A node \in KnownNodes :
        node.current_day <= problem.max_days => StartsWithSkip(node, GenerateChildren(node))
    /\ children # <<>> => StartsWithSkip(current_node[1], children)

\* The expansion of a node on the last day whose open tasks block each other: the
\* only child is the skip-day child, and it is infeasible
SkipDayChildWitness ==
    /\ pc = "running"
    /\ Len(children) = 1
    /\ ~children[1].is_feasible
    /\ current_node[1].current_day = problem.max_days
    /\ \E i \in TaskIds : current_node[1].remaining[i] > 0
    /\ ~SomeTaskAvailable(current_node[1])

(***************************************************************************)
(* C24  Copy-on-branch: building a child from a parent for day d leaves    *)
(* the parent's assignments, remaining_hours, score and bound as they      *)
(* were, and leaves every sibling and every other frontier node as it was. *)
(* The child's assignments are the parent's on every day other than d and  *)
(* the chosen combination on day d; only the tasks named in the            *)
(* combination lose remaining_hours, each exactly the hours committed.     *)
(***************************************************************************)
\* Hours a day's sessions give to a task
HoursFor(day_assignments, subject_id) ==
    SumSeq([k \in DOMAIN day_assignments |->
              IF day_assignments[k][1] = subject_id THEN day_assignments[k][2] ELSE 0])

\* child is parent with one day's combination applied on the parent's current day
BranchOf(parent, child) ==
    LET d == parent.current_day IN
    /\ child.current_day = d + 1
    /\ DOMAIN child.assignments = DOMAIN parent.assignments \cup {d}
    /\ d \notin DOMAIN parent.assignments
    /\ \A day \in DOMAIN parent.assignments : child.assignments[day] = parent.assignments[day]
    /\ child.assignments[d] # <<>>
    /\ \A i \in TaskIds :
        child.remaining[i] = parent.remaining[i] - HoursFor(child.assignments[d], i)

CopyOnBranchStep ==
    (nodes_explored' = nodes_explored + 1 /\ children' # <<>>) =>
        /\ current_node' = <<priority_queue[1].node>>
        /\ \A j \in 2..Len(children') : BranchOf(priority_queue[1].node, children'[j])
        /\ \A k \in DOMAIN priority_queue' :
            priority_queue'[k].seq < node_counter =>
                \E j \in DOMAIN priority_queue : priority_queue[j] = priority_queue'[k]

AllowedSessions(subjects, remaining) ==
    UNION {{<<subjects[k], h>> : h \in problem.min_session_hours..remaining[subjects[k]]} :
           k \in DOMAIN subjects}

SumHoursOf(sessions) == SumSeq([k \in DOMAIN sessions |-> sessions[k][2]])

\* A set of sessions written in the order of the task list
InTaskOrder(sessions, subjects) ==
    SelectSeq([k \in DOMAIN subjects |->
                 IF \E x \in sessions : x[1] = subjects[k]
                 THEN CHOOSE x \in sessions : x[1] = subjects[k]
                 ELSE <<>>],
              LAMBDA x : x # <<>>)

\* The combinations the constraints allow, as sets of sessions
ValidCombinations(subjects, remaining, capacity) ==
    {c \in SUBSET AllowedSessions(subjects, remaining) :
        /\ c # {}
        /\ \A x, y \in c : x[1] = y[1] => x = y
        /\ SumHoursOf(InTaskOrder(c, subjects)) <= capacity}

EnumerationExactFor(subjects, remaining, capacity) ==
    LET combinations == GenerateDailyCombinations(subjects, remaining, capacity) IN
    /\ \A j, k \in DOMAIN combinations : combinations[j] = combinations[k] => j = k
    /\ \A k \in DOMAIN combinations :
        Len(combinations[k]) = Cardinality(Range(combinations[k]))
    /\ {Range(combinations[k]) : k \in DOMAIN combinations}
         = ValidCombinations(subjects, remaining, capacity)
    /\ Len(combinations) = Cardinality(ValidCombinations(subjects, remaining, capacity))

EnumerationExact ==
    \A node \in Range(current_node) \cup Range(children) :
        \A capacity \in 0..problem.max_daily_hours :
            EnumerationExactFor(AvailableSubjects(node), node.remaining, capacity)

\* An expansion by the exhaustive generator of a node with two available tasks whose
\* hours do not all fit in the day, one of them with several session lengths to choose
EnumerationExactWitness ==
    /\ NumTasks <= SmartThreshold
    /\ pc = "running"
    /\ Len(children) >= 3
    /\ Len(AvailableSubjects(current_node[1])) = 2
    /\ SumSeq(current_node[1].remaining) > problem.max_daily_hours
    /\ \E i \in TaskIds : current_node[1].remaining[i] > problem.min_session_hours
    /\ \E j \in 2..Len(children) :
        Len(children[j].assignments[current_node[1].current_day]) = 2

(***************************************************************************)
(* C26  Top-K retention: the children of a node are built from at most 20  *)
(* combinations when the problem has at most 5 tasks and from at most 15,  *)
(* pairwise distinct as sets of sessions, when it has more; the retained   *)
(* combinations are the highest ranked by combination priority: no         *)
(* generated combination that is dropped has a strictly higher priority    *)
(* than one that is kept.                                                  *)
(***************************************************************************)
\* The combinations generated for a node before ranking
GeneratedCombinations(node) ==
    LET subjects == AvailableSubjects(node) IN
    IF NumTasks > SmartThreshold
    THEN LET by_priority == SubjectsByPriority(subjects, node.current_day) IN
         SmartStrategy1(by_priority, node.remaining)
         \o SmartStrategy2(by_priority, node.remaining)
         \o SmartStrategy3(by_priority, node.remaining)
    ELSE GenerateDailyCombinations(subjects, node.remaining, problem.max_daily_hours)

RetainedLimit == IF NumTasks > SmartThreshold THEN TopSmart ELSE TopExhaustive

TopKRetentionFor(node, cs) ==
    LET generated == GeneratedCombinations(node)
        retained == SelectedCombinations(node, AvailableSubjects(node))
        dropped == {Range(generated[g]) : g \in DOMAIN generated}
                     \ {Range(retained[k]) : k \in DOMAIN retained}
    IN /\ Len(retained) <= RetainedLimit
       /\ \A j, k \in DOMAIN retained : Range(retained[j]) = Range(retained[k]) => j = k
       /\ \A k \in DOMAIN retained : \E g \in DOMAIN generated : generated[g] = retained[k]
       /\ \A g \in DOMAIN generated : \A k \in DOMAIN retained :
            Range(generated[g]) \in dropped
                => CalculateCombinationPriority(generated[g])
                     <= CalculateCombinationPriority(retained[k])
       /\ \A j \in DOMAIN cs :
            \/ node.current_day \notin DOMAIN cs[j].assignments
            \/ \E k \in DOMAIN retained : cs[j].assignments[node.current_day] = retained[k]
       /\ Len(cs) <= RetainedLimit + 1

TopKRetention ==
    pc = "running" /\ children # <<>> => TopKRetentionFor(current_node[1], children)

\* An expansion of a node with more combinations than are retained, some of the
\* dropped ones ranking strictly below every retained one
TopKRetentionWitness ==
    /\ pc = "running"
    /\ children # <<>>
    /\ LET node == current_node[1]
           generated == GeneratedCombinations(node)
           retained == SelectedCombinations(node, AvailableSubjects(node))
       IN /\ Len(retained) = RetainedLimit
          /\ \E g \in DOMAIN generated : \A k \in DOMAIN retained :
                CalculateCombinationPriority(generated[g])
                    < CalculateCombinationPriority(retained[k])
          /\ Len(children) > 2

(***************************************************************************)
(* C27  Upper-bound formula: for every node for which a bound is computed  *)
(* (root, skip-day children and allocation children, feasible or not)      *)
(* upper_bound = objective_score + the sum over the tasks with             *)
(* remaining_hours > 0 of (priority * w_priority + 1.5 * w_time            *)
(* + 1.5 * w_balance) * deadlineFactor * remaining_hours, where            *)
(* deadlineFactor is 0.7 exactly when (deadline - current_day + 1)         *)
(* < (max_days - current_day + 1) and 1.0 otherwise, also for nodes with   *)
(* current_day >= max_days and tasks whose deadline is before current_day. *)
(***************************************************************************)
\* The deadline factor as stated, in tenths: no floor under the days to the deadline
StatedDeadlineFactor(task, current_day) ==
    IF task.deadline - current_day + 1 < problem.max_days - current_day + 1 THEN 7 ELSE 10

StatedUpperBound(node) ==
    node.objective_score
    + SumSeq([i \in DOMAIN node.remaining |->
                IF node.remaining[i] > 0
                THEN (((WPriority * problem.tasks[i].priority * Scale
                        + WTimePref * ((3 * Scale) \div 2)
                        + WBalance * ((3 * Scale) \div 2))
                       * StatedDeadlineFactor(problem.tasks[i], node.current_day)) \div 10)
                     * node.remaining[i]
                ELSE 0])

UpperBoundFormula == \A node \in KnownNodes : node.upper_bound = StatedUpperBound(node)

(***************************************************************************)
(* C28  No partial schedule: for a problem with max_days >= 1 and a task   *)
(* with required_hours > 0, every node that solve, called on a fresh       *)
(* scheduler, returns has remaining_hours = 0 for all tasks: a node other  *)
(* than the root with current_day > max_days passes the feasibility check  *)
(* only if its total remaining hours are 0.  When not every task can be    *)
(* finished, solve returns None.                                           *)
(***************************************************************************)
NoPartialSchedule ==
    /\ \A node \in Range(best_solution) :
        \A i \in TaskIds : node.remaining[i] = 0
    /\ \A node \in FrontierNodes :
        node.current_day > problem.max_days /\ node.current_day > 1 =>
            SumSeq(node.remaining) = 0
    /\ pc = "done" /\ ~IsFeasible(problem) => best_solution = <<>>

\* solve has returned the schedule of a two-task problem after discarding children
\* that could not be finished
NoPartialScheduleWitness ==
    /\ pc = "done"
    /\ calls = 1
    /\ best_solution # <<>>
    /\ NumTasks = 2
    /\ nodes_pruned > 0
    /\ best_solution[1].current_day = problem.max_days + 1

(***************************************************************************)
(* C29  The baseline schedulers terminate: for positive whole hours and    *)
(* every min_session_hours >= 1 each iteration of the per-day while loops  *)
(* of RandomScheduler.solve and RoundRobinScheduler.solve makes progress   *)
(* (daily_hours grows or the list of available tasks shrinks); the loops   *)
(* do not spin when every available task can only receive fewer than       *)
(* min_session_hours.                                                      *)
(***************************************************************************)
\* The hours the next iteration can give to a task
Allocatable(task) ==
    Min(baseline.tasks[task], problem.max_daily_hours - baseline.daily_hours)

\* The tasks the next iteration may pick
NextPicks ==
    IF baseline.alg = "random" THEN Range(baseline.available)
    ELSE {baseline.available[IF baseline.task_index >= Len(baseline.available)
                             THEN 1 ELSE baseline.task_index + 1]}

\* Whenever the while loop is about to run an iteration, the task it picks gets a session
BaselineIterationProgress ==
    DayLoopRuns => \A task \in NextPicks : Allocatable(task) >= problem.min_session_hours

(***************************************************************************)
(* C30  Frontier size is bounded: at the start of every loop iteration of  *)
(* solve the frontier holds at most max_queue_size + 21 entries, and at    *)
(* most max_queue_size + 16 when the problem has more than 5 tasks: the    *)
(* size test runs after the pop and before the pushes of at most one skip  *)
(* child and 20 (15) allocation children, and a frontier above             *)
(* max_queue_size is cut to max_queue_size // 2 before those pushes.       *)
(***************************************************************************)
FrontierBounded ==
    /\ Len(priority_queue) <= MaxQueueSize + RetainedLimit + 1
    /\ Len(children) <= RetainedLimit + 1

\* An iteration starts with a frontier above max_queue_size
FrontierBoundedWitness ==
    /\ pc = "running"
    /\ Len(priority_queue) > MaxQueueSize + 1
    /\ nodes_explored < MaxExplored
====
